---- MODULE Spec2Model ----
(***************************************************************************)
(* State-machine model of the fbdev video backend of uterm                 *)
(* (src/src/uterm_fbdev_video.c): one display on one frame-buffer device,  *)
(* its activation / deactivation, buffer swap, DPMS and the video object's *)
(* sleep / wake-up.  Every handler is one atomic action (the backend is    *)
(* single-threaded); the frame-buffer device is the environment.           *)
(***************************************************************************)
EXTENDS Integers, Sequences, FiniteSets, TLC

VARIABLES
    video,          \* struct uterm_video: flags (VIDEO_AWAKE)
    disp,           \* struct uterm_display: flags, modes, current_mode, dpms, vblank timer
    fbdev,          \* struct fbdev_display: finfo, vinfo, map, buffer region fields
    heap,           \* the mode objects that exist: serial number -> struct fbdev_mode
    dev,            \* the frame-buffer device: its variable and fixed screen info
    mm,             \* the process's live mappings of the device (set of addresses)
    modes_created,  \* number of successful mode_new() calls so far
    alive,          \* FALSE once the process has died of a memory fault
    last,           \* the last call: operation, arguments, return value, what it did
    life            \* the display's lifecycle: video_init, the idle callback, video_destroy

vars == <<video, disp, fbdev, heap, dev, mm, modes_created, alive, last, life>>

---------------------------------------------------------------------------
(* Constants of the C headers the source uses *)

EINVAL == 22
EFAULT == 14
ENOMEM == 12

NULL == 0
MAP_FAILED == -1

FB_VISUAL_TRUECOLOR == 2
FB_VISUAL_PSEUDOCOLOR == 3
FB_ACTIVATE_NOW == 0
FB_ACTIVATE_VBL == 16
FB_ACTIVATE_FORCE == 128
FB_BLANK_UNBLANK == 0
FB_BLANK_NORMAL == 1
FB_BLANK_POWERDOWN == 4

UTERM_DPMS_ON == 0
UTERM_DPMS_STANDBY == 1
UTERM_DPMS_SUSPEND == 2
UTERM_DPMS_OFF == 3
UTERM_DPMS_UNKNOWN == 4

VIDEO_AWAKE == "VIDEO_AWAKE"
DISPLAY_ONLINE == "DISPLAY_ONLINE"
DISPLAY_DBUF == "DISPLAY_DBUF"
DISPLAY_DITHERING == "DISPLAY_DITHERING"

(* static const char depths[] = { 32, 16, 0 } *)
depths == <<32, 16, 0>>

---------------------------------------------------------------------------
(* Bounds of the model *)

\* mode_new() succeeds at most this many times in one behaviour
MaxModes == 2

\* the requested-mode arguments a caller passes to activate: NULL or a mode
ModeArgs == {NULL, 1}

\* the dpms arguments a caller passes: two of the four states and one that
\* is none of them
DpmsArgs == {UTERM_DPMS_ON, UTERM_DPMS_OFF, UTERM_DPMS_UNKNOWN}

---------------------------------------------------------------------------
(* The device (environment): what the fbdev ioctls read and write *)

Chan(o, l) == [offset |-> o, length |-> l]

\* pixel formats a driver may be configured with
Formats ==
    { [visual |-> FB_VISUAL_TRUECOLOR, bits_per_pixel |-> 32,
       red |-> Chan(16, 8), green |-> Chan(8, 8), blue |-> Chan(0, 8)],
      [visual |-> FB_VISUAL_TRUECOLOR, bits_per_pixel |-> 16,
       red |-> Chan(11, 5), green |-> Chan(5, 6), blue |-> Chan(0, 5)],
      [visual |-> FB_VISUAL_PSEUDOCOLOR, bits_per_pixel |-> 8,
       red |-> Chan(0, 8), green |-> Chan(0, 8), blue |-> Chan(0, 8)],
      [visual |-> FB_VISUAL_TRUECOLOR, bits_per_pixel |-> 8,
       red |-> Chan(5, 3), green |-> Chan(2, 3), blue |-> Chan(0, 2)],
      [visual |-> FB_VISUAL_TRUECOLOR, bits_per_pixel |-> 32,
       red |-> Chan(20, 10), green |-> Chan(10, 10), blue |-> Chan(0, 10)] }

\* resolutions and timings the device may be set to (fbset)
VideoModes ==
    { [xres |-> 1920, yres |-> 1080, left_margin |-> 148, right_margin |-> 88,
       upper_margin |-> 36, lower_margin |-> 4, pixclock |-> 6734],
      [xres |-> 1024, yres |-> 768, left_margin |-> 160, right_margin |-> 24,
       upper_margin |-> 29, lower_margin |-> 3, pixclock |-> 0] }

\* struct fb_var_screeninfo, the fields the source reads or writes
MkVar(m, f, xv, yv, xo, yo, act) ==
    [xres |-> m.xres, yres |-> m.yres,
     xres_virtual |-> xv, yres_virtual |-> yv,
     xoffset |-> xo, yoffset |-> yo,
     bits_per_pixel |-> f.bits_per_pixel,
     red |-> f.red, green |-> f.green, blue |-> f.blue,
     activate |-> act, pixclock |-> m.pixclock,
     left_margin |-> m.left_margin, right_margin |-> m.right_margin,
     upper_margin |-> m.upper_margin, lower_margin |-> m.lower_margin]

\* struct fb_fix_screeninfo of a device configured with var and visual
MkFix(var, visual) ==
    [id |-> "fb", visual |-> visual,
     line_length |-> (var.xres_virtual * var.bits_per_pixel) \div 8]

\* memset(fbdev, 0, sizeof(*fbdev)) leaves both snapshots zero
ZeroVar ==
    [xres |-> 0, yres |-> 0, xres_virtual |-> 0, yres_virtual |-> 0,
     xoffset |-> 0, yoffset |-> 0, bits_per_pixel |-> 0,
     red |-> Chan(0, 0), green |-> Chan(0, 0), blue |-> Chan(0, 0),
     activate |-> 0, pixclock |-> 0,
     left_margin |-> 0, right_margin |-> 0,
     upper_margin |-> 0, lower_margin |-> 0]

ZeroFix == [id |-> "", visual |-> 0, line_length |-> 0]

\* a device in video mode m and pixel format f, as a console leaves it
Device(m, f) ==
    LET var == MkVar(m, f, m.xres, m.yres, 0, 0, FB_ACTIVATE_NOW)
    IN  [var |-> var, fix |-> MkFix(var, f.visual)]

\* the device after it accepted FBIOPUT_VSCREENINFO of var and settled on
\* format f (a driver may round the request to what it supports); activate
\* is a request field, which the device reports back as FB_ACTIVATE_NOW
Configured(var, f) ==
    LET v == [var EXCEPT !.bits_per_pixel = f.bits_per_pixel,
                         !.red = f.red, !.green = f.green, !.blue = f.blue,
                         !.activate = FB_ACTIVATE_NOW]
    IN  [var |-> v, fix |-> MkFix(v, f.visual)]

---------------------------------------------------------------------------
(* Execution context of one handler: the program state it works on, the    *)
(* device, and a record of what the call did                               *)

NoEvents ==
    [ioctls |-> FALSE,    \* a device control call was issued (ioctl)
     failed |-> FALSE,    \* the device refused a call (ioctl, mmap)
     mmaps |-> 0,         \* mappings created
     munmaps |-> 0,       \* mappings released
     stale |-> FALSE,     \* memset/munmap of a region that is not mapped
     mode_news |-> 0,     \* mode objects created
     timer_set |-> FALSE, \* display_set_vblank_timer called
     timer_sched |-> FALSE, \* display_schedule_vblank_timer called
     retried |-> FALSE]   \* the retry of lines 169-177 was accepted, and
                          \* the device has refused no call since

Ctx ==
    [video |-> video, disp |-> disp, fbdev |-> fbdev, heap |-> heap,
     dev |-> dev, mm |-> mm, modes_created |-> modes_created,
     alive |-> alive, ev |-> NoEvents,
     rc |-> 0, returned |-> FALSE, retval |-> 0]

\* return v;
Return(c, v) == [c EXCEPT !.returned = TRUE, !.retval = v]

\* the process dies of SIGSEGV inside the handler: the call never returns
Fault(c) == [c EXCEPT !.alive = FALSE]

Running(c) == c.alive /\ ~c.returned

\* run step F on every context of S that is still executing
Then(S, F(_)) == UNION { IF Running(c) THEN F(c) ELSE {c} : c \in S }

video_is_awake(v) == VIDEO_AWAKE \in v.flags

---------------------------------------------------------------------------
(* Device calls *)

\* the outcome c of a call the device refuses
Refused(c) == { [c EXCEPT !.ev.failed = TRUE, !.ev.retried = FALSE] }

\* ioctl(fd, FBIOGET_FSCREENINFO, &fbdev->finfo): fails, or fills finfo
FBIOGET_FSCREENINFO(c) ==
    Refused([c EXCEPT !.rc = -1, !.ev.ioctls = TRUE]) \cup
    { [c EXCEPT !.rc = 0, !.ev.ioctls = TRUE, !.fbdev.finfo = c.dev.fix] }

\* ioctl(fd, FBIOGET_VSCREENINFO, &fbdev->vinfo): fails, or fills vinfo
FBIOGET_VSCREENINFO(c) ==
    Refused([c EXCEPT !.rc = -1, !.ev.ioctls = TRUE]) \cup
    { [c EXCEPT !.rc = 0, !.ev.ioctls = TRUE, !.fbdev.vinfo = c.dev.var] }

\* the formats a driver may settle on when it accepts var: one of the
\* requested depth, or the one it is in (a driver that ignores the request)
Settles(d, var) ==
    { f \in Formats :
        \/ f.bits_per_pixel = var.bits_per_pixel
        \/ /\ f.visual = d.fix.visual
           /\ f.bits_per_pixel = d.var.bits_per_pixel
           /\ f.red = d.var.red /\ f.green = d.var.green /\ f.blue = d.var.blue }

\* ioctl(fd, FBIOPUT_VSCREENINFO, vinfo): the device rejects the request and
\* leaves both itself and *vinfo alone, or accepts it, settles on a format
\* and writes the resulting configuration back to *vinfo
FBIOPUT_VSCREENINFO(c) ==
    Refused([c EXCEPT !.rc = -1, !.ev.ioctls = TRUE])
    \cup
    { [c EXCEPT !.rc = 0, !.ev.ioctls = TRUE,
                !.dev = Configured(c.fbdev.vinfo, f),
                !.fbdev.vinfo = Configured(c.fbdev.vinfo, f).var]
      : f \in Settles(c.dev, c.fbdev.vinfo) }

\* ioctl(fd, FBIOBLANK, set)
FBIOBLANK(c, set) ==
    Refused([c EXCEPT !.rc = -1, !.ev.ioctls = TRUE]) \cup
    { [c EXCEPT !.rc = 0, !.ev.ioctls = TRUE] }

\* the lowest address not mapped: where the kernel places a new mapping
FreeAddr(m) == CHOOSE a \in 1..(Cardinality(m) + 1) : a \notin m

\* fbdev->map = mmap(0, len, PROT_WRITE, MAP_SHARED, fd, 0)
mmap(c) ==
    Refused([c EXCEPT !.fbdev.map = MAP_FAILED]) \cup
    { [c EXCEPT !.fbdev.map = FreeAddr(c.mm), !.mm = @ \cup {FreeAddr(c.mm)},
                !.ev.mmaps = @ + 1] }

\* munmap(fbdev->map, fbdev->len); on a region that is not mapped the call
\* releases nothing of this display
munmap(c) ==
    IF c.fbdev.map \in c.mm
    THEN [c EXCEPT !.mm = @ \ {c.fbdev.map}, !.ev.munmaps = @ + 1]
    ELSE [c EXCEPT !.ev.stale = TRUE]

---------------------------------------------------------------------------
(* refresh_info *)

refresh_info(c) ==
    UNION { IF c1.rc # 0 THEN {Return(c1, -EFAULT)}
            ELSE { IF c2.rc # 0 THEN Return(c2, -EFAULT) ELSE c2
                   : c2 \in FBIOGET_VSCREENINFO(c1) }
          : c1 \in FBIOGET_FSCREENINFO(c) }

---------------------------------------------------------------------------
(* Monitor rate (lines 246-264).  quot is a uint64_t; 10^15 does not fit   *)
(* the checker's integers, so the numerator is kept as base-1000 digits     *)
(* and divided by the three factors in turn, which for positive integers    *)
(* is the same quotient as one division by their product.                   *)

\* 1000000000000000LLU, most significant base-1000 digit first
Numerator == <<1, 0, 0, 0, 0, 0>>

RECURSIVE DivDigits(_, _, _)
\* long division of the digits ds by d, with carry r
DivDigits(ds, d, r) ==
    IF ds = <<>> THEN <<>>
    ELSE LET cur == r * 1000 + Head(ds)
         IN  <<cur \div d>> \o DivDigits(Tail(ds), d, cur % d)

RECURSIVE Strip(_)
\* without leading zero digits
Strip(ds) == IF ds # <<>> /\ Head(ds) = 0 THEN Strip(Tail(ds)) ELSE ds

\* 10^15 / (v * h * p) for positive v, h, p, cut off above 200000: every
\* quotient of three or more digits exceeds it
Quotient(v, h, p) ==
    LET q == Strip(DivDigits(DivDigits(DivDigits(Numerator, v, 0), h, 0), p, 0))
    IN  IF Len(q) > 2 THEN 200001
        ELSE IF Len(q) = 2 THEN q[1] * 1000 + q[2]
        ELSE IF Len(q) = 1 THEN q[1]
        ELSE 0

\* monitor_rate without the upper clamp of lines 259-263
monitor_rate_unclamped(vinfo) ==
    LET v == vinfo.upper_margin + vinfo.lower_margin + vinfo.yres
        h == vinfo.left_margin + vinfo.right_margin + vinfo.xres
        p == vinfo.pixclock
        rate == IF v # 0 /\ h # 0 /\ p # 0 THEN Quotient(v, h, p) ELSE 60 * 1000
    IN  IF rate = 0 THEN 1 ELSE rate

\* fbdev->rate as lines 247-264 compute it from vinfo
monitor_rate(vinfo) ==
    LET v == vinfo.upper_margin + vinfo.lower_margin + vinfo.yres
        h == vinfo.left_margin + vinfo.right_margin + vinfo.xres
        p == vinfo.pixclock
        rate == IF v # 0 /\ h # 0 /\ p # 0 THEN Quotient(v, h, p) ELSE 60 * 1000
    IN  IF rate = 0 THEN 1
        ELSE IF rate > 200000 THEN 200000
        ELSE rate

\* display_set_vblank_timer(disp, val): the pacing interval handed to the timer
display_set_vblank_timer(c, val) ==
    [c EXCEPT !.disp.vblank_spec = val, !.ev.timer_set = TRUE]

\* display_schedule_vblank_timer(disp): arms the pacing timer
display_schedule_vblank_timer(c) ==
    Return([c EXCEPT !.ev.timer_sched = TRUE], 0)

---------------------------------------------------------------------------
(* display_activate_force, in the order of the source *)

\* activate_apply with line 163 testing the driver id only: double buffering
\* stays on for every driver but "udlfb"
activate_apply_dbuf(c) ==
    LET c1 == [c EXCEPT !.fbdev.vinfo.xoffset = 0,
                        !.fbdev.vinfo.yoffset = 0,
                        !.fbdev.vinfo.activate = FB_ACTIVATE_NOW + FB_ACTIVATE_FORCE,
                        !.fbdev.vinfo.xres_virtual = c.fbdev.vinfo.xres,
                        !.fbdev.vinfo.yres_virtual = c.fbdev.vinfo.yres * 2,
                        !.disp.flags = @ \cup {DISPLAY_DBUF}]
        c2 == IF c1.fbdev.finfo.id = "udlfb"
              THEN [c1 EXCEPT !.disp.flags = @ \ {DISPLAY_DBUF},
                              !.fbdev.vinfo.yres_virtual = c1.fbdev.vinfo.yres]
              ELSE c1
        retry(x) ==
            LET x1 == [x EXCEPT !.disp.flags = @ \ {DISPLAY_DBUF},
                                !.fbdev.vinfo.yres_virtual = x.fbdev.vinfo.yres]
            IN  { IF x2.rc # 0 THEN Return(x2, -EFAULT)
                  ELSE [x2 EXCEPT !.ev.retried = TRUE]
                  : x2 \in FBIOPUT_VSCREENINFO(x1) }
        applied == UNION { IF x.rc # 0 THEN retry(x) ELSE {x}
                           : x \in FBIOPUT_VSCREENINFO(c2) }
    IN  Then(applied, refresh_info)

\* lines 147-186: reset the offsets, apply, retry once, re-read
activate_apply(c) ==
    LET c1 == [c EXCEPT !.fbdev.vinfo.xoffset = 0,
                        !.fbdev.vinfo.yoffset = 0,
                        !.fbdev.vinfo.activate = FB_ACTIVATE_NOW + FB_ACTIVATE_FORCE,
                        !.fbdev.vinfo.xres_virtual = c.fbdev.vinfo.xres,
                        !.fbdev.vinfo.yres_virtual = c.fbdev.vinfo.yres * 2,
                        !.disp.flags = @ \cup {DISPLAY_DBUF}]
        \* if (true || !strcmp(finfo->id, "udlfb"))
        c2 == [c1 EXCEPT !.disp.flags = @ \ {DISPLAY_DBUF},
                         !.fbdev.vinfo.yres_virtual = c1.fbdev.vinfo.yres]
        retry(x) ==
            LET x1 == [x EXCEPT !.disp.flags = @ \ {DISPLAY_DBUF},
                                !.fbdev.vinfo.yres_virtual = x.fbdev.vinfo.yres]
            IN  { IF x2.rc # 0 THEN Return(x2, -EFAULT)
                  ELSE [x2 EXCEPT !.ev.retried = TRUE]
                  : x2 \in FBIOPUT_VSCREENINFO(x1) }
        applied == UNION { IF x.rc # 0 THEN retry(x) ELSE {x}
                           : x \in FBIOPUT_VSCREENINFO(c2) }
    IN  Then(applied, refresh_info)

RECURSIVE depth_loop(_, _)
\* lines 195-210: for (i = 0; depths[i]; ++i)
depth_loop(c, i) ==
    IF depths[i] = 0 THEN {c}
    ELSE LET c1 == [c EXCEPT !.fbdev.vinfo.bits_per_pixel = depths[i],
                             !.fbdev.vinfo.activate =
                                 FB_ACTIVATE_NOW + FB_ACTIVATE_FORCE]
             after(x) ==
                 IF x.rc < 0 THEN depth_loop(x, i + 1)
                 ELSE UNION { IF ~Running(y) THEN {y}
                              ELSE IF y.fbdev.finfo.visual = FB_VISUAL_TRUECOLOR
                              THEN {y}
                              ELSE depth_loop(y, i + 1)
                            : y \in refresh_info(x) }
         IN  UNION { after(x) : x \in FBIOPUT_VSCREENINFO(c1) }

\* lines 193-211: look for a true-color depth unless already at 32 bpp
activate_depths(c) ==
    IF c.fbdev.finfo.visual # FB_VISUAL_TRUECOLOR
       \/ c.fbdev.vinfo.bits_per_pixel # 32
    THEN depth_loop(c, 1)
    ELSE {c}

\* lines 222-241: what the backend can draw to
activate_validate(c) ==
    LET vinfo == c.fbdev.vinfo
    IN  IF vinfo.bits_per_pixel # 32 /\ vinfo.bits_per_pixel # 16
        THEN {Return(c, -EFAULT)}
        ELSE IF c.fbdev.finfo.visual # FB_VISUAL_TRUECOLOR
        THEN {Return(c, -EFAULT)}
        ELSE IF vinfo.red.length > 8 \/ vinfo.green.length > 8
                \/ vinfo.blue.length > 8
        THEN {Return(c, -EFAULT)}
        ELSE {c}

\* lines 246-269: monitor rate and vblank timer
activate_rate(c) ==
    LET c1 == [c EXCEPT !.fbdev.rate = monitor_rate(c.fbdev.vinfo)]
    IN  { display_set_vblank_timer(c1, 1000000 \div c1.fbdev.rate) }

\* lines 271-310: map the device and record the buffer region
activate_map(c) ==
    LET vinfo == c.fbdev.vinfo
        base == c.fbdev.finfo.line_length * vinfo.yres
        len == IF DISPLAY_DBUF \in c.disp.flags THEN base * 2 ELSE base
        record(x) ==
            LET Bpp == vinfo.bits_per_pixel \div 8
            IN  [x EXCEPT
                   !.fbdev.xres = vinfo.xres,
                   !.fbdev.yres = vinfo.yres,
                   !.fbdev.len = len,
                   !.fbdev.stride = x.fbdev.finfo.line_length,
                   !.fbdev.bufid = 0,
                   !.fbdev.Bpp = Bpp,
                   !.fbdev.off_r = vinfo.red.offset,
                   !.fbdev.len_r = vinfo.red.length,
                   !.fbdev.off_g = vinfo.green.offset,
                   !.fbdev.len_g = vinfo.green.length,
                   !.fbdev.off_b = vinfo.blue.offset,
                   !.fbdev.len_b = vinfo.blue.length,
                   !.fbdev.dither_r = 0,
                   !.fbdev.dither_g = 0,
                   !.fbdev.dither_b = 0,
                   !.fbdev.xrgb32 =
                       (vinfo.red.length = 8 /\ vinfo.green.length = 8
                        /\ vinfo.blue.length = 8 /\ vinfo.red.offset = 16
                        /\ vinfo.green.offset = 8 /\ vinfo.blue.offset = 0
                        /\ Bpp = 4),
                   !.disp.flags = @ \cup {DISPLAY_DITHERING}]
    IN  { IF x.fbdev.map = MAP_FAILED THEN Return(x, -EFAULT) ELSE record(x)
          : x \in mmap(c) }

\* mode_new(&m, &fbdev_mode_ops): fails, or allocates a mode whose data
\* mode_init has zeroed
mode_new(c) ==
    { [c EXCEPT !.rc = -ENOMEM] }
    \cup
    IF c.modes_created < MaxModes
    THEN { [c EXCEPT !.rc = 0,
                     !.modes_created = @ + 1,
                     !.ev.mode_news = @ + 1,
                     !.heap = [s \in DOMAIN c.heap \cup {c.modes_created + 1} |->
                                  IF s = c.modes_created + 1
                                  THEN [width |-> 0, height |-> 0]
                                  ELSE c.heap[s]]] }
    ELSE {}

\* lines 321-322: fbdev_mode is never assigned, so the two stores go through
\* an uninitialized pointer: they fault, or land outside the mode, or (should
\* the stale value happen to be the new mode's data) land in it
store_mode_size(c, m) ==
    { Fault(c),
      c,
      [c EXCEPT !.heap[m] = [width |-> c.fbdev.xres, height |-> c.fbdev.yres]] }

\* activate_mode returning on a failed mode_new without the munmap of line 315
activate_mode_no_unmap(c) ==
    LET online(x) == Return([x EXCEPT !.disp.flags = @ \cup {DISPLAY_ONLINE}], 0)
        link(x) ==
            LET m == x.modes_created
                x1 == [x EXCEPT !.disp.modes = <<m>> \o @]
            IN  { IF y.alive THEN online([y EXCEPT !.disp.current_mode = Head(y.disp.modes)])
                  ELSE y
                  : y \in store_mode_size(x1, m) }
    IN  IF c.disp.current_mode = NULL
        THEN UNION { IF x.rc # 0 THEN {Return(x, x.rc)} ELSE link(x)
                     : x \in mode_new(c) }
        ELSE {online(c)}

\* activate_mode without the test of line 312: a mode for every activation
activate_mode_always_new(c) ==
    LET online(x) == Return([x EXCEPT !.disp.flags = @ \cup {DISPLAY_ONLINE}], 0)
        link(x) ==
            LET m == x.modes_created
                x1 == [x EXCEPT !.disp.modes = <<m>> \o @]
            IN  { IF y.alive THEN online([y EXCEPT !.disp.current_mode = Head(y.disp.modes)])
                  ELSE y
                  : y \in store_mode_size(x1, m) }
    IN  UNION { IF x.rc # 0 THEN {Return(munmap(x), x.rc)} ELSE link(x)
                : x \in mode_new(c) }

\* lines 312-327: create the mode on first activation, go online
activate_mode(c) ==
    LET online(x) == Return([x EXCEPT !.disp.flags = @ \cup {DISPLAY_ONLINE}], 0)
        link(x) ==
            LET m == x.modes_created
                x1 == [x EXCEPT !.disp.modes = <<m>> \o @]
            IN  { IF y.alive THEN online([y EXCEPT !.disp.current_mode = Head(y.disp.modes)])
                  ELSE y
                  : y \in store_mode_size(x1, m) }
    IN  IF c.disp.current_mode = NULL
        THEN UNION { IF x.rc # 0 THEN {Return(munmap(x), x.rc)} ELSE link(x)
                     : x \in mode_new(c) }
        ELSE {online(c)}

\* display_activate_force without the early return of lines 130-131
display_activate_force_always(c, mode, force) ==
    IF ~video_is_awake(c.video) THEN {Return(c, -EINVAL)}
    ELSE IF mode # NULL THEN {Return(c, -EINVAL)}
    ELSE Then(Then(Then(Then(Then(Then(refresh_info(c),
            activate_apply), activate_depths), activate_validate),
            activate_rate), activate_map), activate_mode)

display_activate_force(c, mode, force) ==
    IF ~video_is_awake(c.video) THEN {Return(c, -EINVAL)}
    ELSE IF ~force /\ DISPLAY_ONLINE \in c.disp.flags THEN {Return(c, 0)}
    ELSE IF mode # NULL THEN {Return(c, -EINVAL)}
    ELSE Then(Then(Then(Then(Then(Then(refresh_info(c),
            activate_apply), activate_depths), activate_validate),
            activate_rate), activate_map), activate_mode)

display_activate(c, mode) == display_activate_force(c, mode, FALSE)

---------------------------------------------------------------------------
(* display_deactivate_force *)

\* uterm_mode_unref(disp->current_mode): the display held the only reference
uterm_mode_unref(c, m) ==
    [c EXCEPT !.heap = [s \in DOMAIN c.heap \ {m} |-> c.heap[s]]]

\* memset(fbdev->map, 0, fbdev->len): on a region that is no longer mapped
\* the store faults, or hits whatever the address range holds by now
memset_map(c) ==
    IF c.fbdev.map \in c.mm THEN {c}
    ELSE { Fault([c EXCEPT !.ev.stale = TRUE]), [c EXCEPT !.ev.stale = TRUE] }

\* display_deactivate_force without the munmap of line 350
display_deactivate_force_no_munmap(c, force) ==
    IF DISPLAY_ONLINE \notin c.disp.flags THEN {Return(c, 0)}
    ELSE LET c1 == IF ~force
                   THEN [uterm_mode_unref(c, c.disp.current_mode) EXCEPT
                            !.disp.modes = <<>>,
                            !.disp.current_mode = NULL]
                   ELSE c
             finish(x) ==
                 Return(IF ~force
                        THEN [x EXCEPT !.disp.flags = @ \ {DISPLAY_ONLINE}]
                        ELSE x, 0)
         IN  { IF x.alive THEN finish(x) ELSE x : x \in memset_map(c1) }

\* display_deactivate_force that never clears DISPLAY_ONLINE (line 353 lost)
display_deactivate_force_keeps_online(c, force) ==
    IF DISPLAY_ONLINE \notin c.disp.flags THEN {Return(c, 0)}
    ELSE LET c1 == IF ~force
                   THEN [uterm_mode_unref(c, c.disp.current_mode) EXCEPT
                            !.disp.modes = <<>>,
                            !.disp.current_mode = NULL]
                   ELSE c
         IN  { IF x.alive THEN Return(munmap(x), 0) ELSE x : x \in memset_map(c1) }

display_deactivate_force(c, force) ==
    IF DISPLAY_ONLINE \notin c.disp.flags THEN {Return(c, 0)}
    ELSE LET c1 == IF ~force
                   THEN [uterm_mode_unref(c, c.disp.current_mode) EXCEPT
                            !.disp.modes = <<>>,
                            !.disp.current_mode = NULL]
                   ELSE c
             finish(x) ==
                 LET x1 == munmap(x)
                 IN  Return(IF ~force
                            THEN [x1 EXCEPT !.disp.flags = @ \ {DISPLAY_ONLINE}]
                            ELSE x1, 0)
         IN  { IF x.alive THEN finish(x) ELSE x : x \in memset_map(c1) }

display_deactivate(c) == display_deactivate_force(c, FALSE)

---------------------------------------------------------------------------
(* display_set_dpms, display_swap *)

display_set_dpms(c, state) ==
    IF DISPLAY_ONLINE \notin c.disp.flags THEN {Return(c, -EINVAL)}
    ELSE IF state \notin {UTERM_DPMS_ON, UTERM_DPMS_STANDBY,
                          UTERM_DPMS_SUSPEND, UTERM_DPMS_OFF}
    THEN {Return(c, -EINVAL)}
    ELSE LET set == CASE state = UTERM_DPMS_ON -> FB_BLANK_UNBLANK
                      [] state = UTERM_DPMS_STANDBY -> FB_BLANK_NORMAL
                      [] state = UTERM_DPMS_SUSPEND -> FB_BLANK_NORMAL
                      [] state = UTERM_DPMS_OFF -> FB_BLANK_POWERDOWN
         IN  { IF x.rc # 0 THEN Return(x, -EFAULT)
               ELSE Return([x EXCEPT !.disp.dpms = state], 0)
               : x \in FBIOBLANK(c, set) }

\* display_swap without the video_is_awake test of lines 406-407
display_swap_unguarded(c) ==
    IF DISPLAY_ONLINE \notin c.disp.flags THEN {Return(c, -EINVAL)}
    ELSE IF DISPLAY_DBUF \notin c.disp.flags
    THEN {display_schedule_vblank_timer(c)}
    ELSE LET c1 == [c EXCEPT !.fbdev.vinfo.activate = FB_ACTIVATE_VBL,
                             !.fbdev.vinfo.yoffset =
                                 IF c.fbdev.bufid = 0 THEN c.fbdev.yres ELSE 0]
         IN  { IF x.rc # 0 THEN Return(x, -EFAULT)
               ELSE display_schedule_vblank_timer(
                        [x EXCEPT !.fbdev.bufid = 1 - @])
               : x \in FBIOPUT_VSCREENINFO(c1) }

display_swap(c) ==
    IF ~video_is_awake(c.video) THEN {Return(c, -EINVAL)}
    ELSE IF DISPLAY_ONLINE \notin c.disp.flags THEN {Return(c, -EINVAL)}
    ELSE IF DISPLAY_DBUF \notin c.disp.flags
    THEN {display_schedule_vblank_timer(c)}
    ELSE LET c1 == [c EXCEPT !.fbdev.vinfo.activate = FB_ACTIVATE_VBL,
                             !.fbdev.vinfo.yoffset =
                                 IF c.fbdev.bufid = 0 THEN c.fbdev.yres ELSE 0]
         IN  { IF x.rc # 0 THEN Return(x, -EFAULT)
               ELSE display_schedule_vblank_timer(
                        [x EXCEPT !.fbdev.bufid = 1 - @])
               : x \in FBIOPUT_VSCREENINFO(c1) }

---------------------------------------------------------------------------
(* video_sleep, video_wake_up *)

\* back in the caller: the callee's return value stays in retval
Call(S) == { IF x.alive THEN [x EXCEPT !.returned = FALSE] ELSE x : x \in S }

\* video_sleep that only clears VIDEO_AWAKE (line 546 lost)
video_sleep_keeps_map(c) ==
    IF VIDEO_AWAKE \notin c.video.flags THEN {Return(c, 0)}
    ELSE {Return([c EXCEPT !.video.flags = @ \ {VIDEO_AWAKE}], 0)}

\* video_sleep deactivating the display as a caller would (force = false)
video_sleep_unforced(c) ==
    IF VIDEO_AWAKE \notin c.video.flags THEN {Return(c, 0)}
    ELSE { IF x.alive
           THEN Return([x EXCEPT !.video.flags = @ \ {VIDEO_AWAKE}], 0)
           ELSE x
           : x \in Call(display_deactivate_force(c, FALSE)) }

video_sleep(c) ==
    IF VIDEO_AWAKE \notin c.video.flags THEN {Return(c, 0)}
    ELSE { IF x.alive
           THEN Return([x EXCEPT !.video.flags = @ \ {VIDEO_AWAKE}], 0)
           ELSE x
           : x \in Call(display_deactivate_force(c, TRUE)) }

\* video_wake_up that only sets VIDEO_AWAKE (lines 559-565 lost)
video_wake_up_no_reactivate(c) ==
    IF VIDEO_AWAKE \in c.video.flags THEN {Return(c, 0)}
    ELSE {Return([c EXCEPT !.video.flags = @ \cup {VIDEO_AWAKE}], 0)}

\* video_wake_up without the rollback of line 562
video_wake_up_stays_awake(c) ==
    IF VIDEO_AWAKE \in c.video.flags THEN {Return(c, 0)}
    ELSE LET c1 == [c EXCEPT !.video.flags = @ \cup {VIDEO_AWAKE}]
         IN  IF DISPLAY_ONLINE \in c1.disp.flags
             THEN { IF ~x.alive THEN x
                    ELSE IF x.retval # 0 THEN Return(x, x.retval)
                    ELSE Return(x, 0)
                    : x \in Call(display_activate_force(c1, NULL, TRUE)) }
             ELSE {Return(c1, 0)}

video_wake_up(c) ==
    IF VIDEO_AWAKE \in c.video.flags THEN {Return(c, 0)}
    ELSE LET c1 == [c EXCEPT !.video.flags = @ \cup {VIDEO_AWAKE}]
         IN  IF DISPLAY_ONLINE \in c1.disp.flags
             THEN { IF ~x.alive THEN x
                    ELSE IF x.retval # 0
                    THEN Return([x EXCEPT !.video.flags = @ \ {VIDEO_AWAKE}],
                                x.retval)
                    ELSE Return(x, 0)
                    : x \in Call(display_activate_force(c1, NULL, TRUE)) }
             ELSE {Return(c1, 0)}

---------------------------------------------------------------------------
(* video_init, intro_idle_event, video_destroy *)

\* before video_init: no display, nothing registered, nothing announced
Unborn ==
    [phase |-> "none",         \* "none", "ready", "failed", "destroyed"
     pending_intro |-> FALSE,  \* fbdev->pending_intro
     idle_cbs |-> 0,           \* registrations of intro_idle_event on the eloop
     disp_live |-> FALSE,      \* the display object is allocated
     fbdev_live |-> FALSE,     \* the fbdev_display is allocated
     news |-> 0,               \* UTERM_NEW notifications delivered
     gones |-> 0,              \* UTERM_GONE notifications delivered
     ret |-> 0]                \* what video_init returned

\* ev_eloop_register_idle_cb(eloop, intro_idle_event, disp): fails, or adds
\* one registration
ev_eloop_register_idle_cb(l) ==
    { [rc |-> -ENOMEM, life |-> l],
      [rc |-> 0, life |-> [l EXCEPT !.idle_cbs = @ + 1]] }

\* ev_eloop_unregister_idle_cb(eloop, intro_idle_event, disp): removes one
\* registration
ev_eloop_unregister_idle_cb(l) ==
    [l EXCEPT !.idle_cbs = IF @ > 0 THEN @ - 1 ELSE 0]

\* uterm_display_unref(disp); free(fbdev): the labels err_free and err_fbdev
init_free(l, ret) ==
    [l EXCEPT !.disp_live = FALSE, !.fbdev_live = FALSE,
              !.phase = "failed", !.ret = ret]

\* the label err_idle (line 512): it registers the callback once more, where
\* it is meant to unregister it
init_err_idle(l, ret) ==
    { init_free(r.life, ret) : r \in ev_eloop_register_idle_cb(l) }

video_init(l) ==
    LET l1 == [l EXCEPT !.fbdev_live = TRUE]
        l2 == [l1 EXCEPT !.disp_live = TRUE]
        registered(l3) ==
            LET l4 == [l3 EXCEPT !.pending_intro = TRUE]
            IN  \* strdup fails
                init_err_idle(l4, -ENOMEM)
                \* open fails
                \cup init_err_idle(l4, -EFAULT)
                \cup { [l4 EXCEPT !.phase = "ready", !.ret = 0] }
    IN  \* malloc fails
        { [l EXCEPT !.phase = "failed", !.ret = -ENOMEM] }
        \* display_new fails: err_fbdev
        \cup { [l1 EXCEPT !.fbdev_live = FALSE, !.phase = "failed",
                          !.ret = -ENOMEM] }
        \cup UNION { IF r.rc # 0 THEN {init_free(r.life, r.rc)}
                     ELSE registered(r.life)
                     : r \in ev_eloop_register_idle_cb(l2) }

\* the state video_init leaves when it returns 0
Ready ==
    [phase |-> "ready", pending_intro |-> TRUE, idle_cbs |-> 1,
     disp_live |-> TRUE, fbdev_live |-> TRUE, news |-> 0, gones |-> 0,
     ret |-> 0]

\* intro_idle_event(eloop, NULL, disp).  disp->video is set by display_new
\* and not cleared in this file.  Called for a display that video_init has
\* freed, it reads freed memory: it faults, or finds pending_intro clear, or
\* finds it set and goes on, with disp->video NULL or not.
intro_idle_event(l) ==
    IF l.disp_live /\ l.fbdev_live
    THEN IF ~l.pending_intro THEN { [life |-> l, alive |-> TRUE] }
         ELSE { [life |-> [ev_eloop_unregister_idle_cb(l) EXCEPT
                              !.pending_intro = FALSE, !.news = @ + 1],
                 alive |-> TRUE] }
    ELSE { [life |-> l, alive |-> FALSE],
           [life |-> l, alive |-> TRUE],
           [life |-> [ev_eloop_unregister_idle_cb(l) EXCEPT
                         !.pending_intro = FALSE],
            alive |-> TRUE],
           [life |-> [ev_eloop_unregister_idle_cb(l) EXCEPT
                         !.pending_intro = FALSE, !.news = @ + 1],
            alive |-> TRUE] }

\* video_destroy that announces UTERM_GONE whether or not the display was
\* announced
video_destroy_always_gone(l) ==
    LET l1 == IF l.pending_intro THEN ev_eloop_unregister_idle_cb(l) ELSE l
    IN  [l1 EXCEPT !.gones = @ + 1, !.fbdev_live = FALSE,
                   !.disp_live = FALSE, !.phase = "destroyed"]

video_destroy(l) ==
    LET l1 == IF l.pending_intro
              THEN ev_eloop_unregister_idle_cb(l)
              ELSE [l EXCEPT !.gones = @ + 1]
    IN  [l1 EXCEPT !.fbdev_live = FALSE, !.disp_live = FALSE,
                   !.phase = "destroyed"]

---------------------------------------------------------------------------
(* The state machine *)

\* the mode the display currently uses, as mode_get_width/height read it
NoMode == [width |-> -1, height |-> -1]
CurrentMode(d, h) ==
    IF d.current_mode \in DOMAIN h THEN h[d.current_mode] ELSE NoMode

mode_get_width(d, h) == CurrentMode(d, h).width
mode_get_height(d, h) == CurrentMode(d, h).height

NoCall == [op |-> "init", arg |-> 0, ret |-> 0, ev |-> NoEvents]

\* fbdev between two calls.  The snapshots fbdev->finfo and fbdev->vinfo are
\* scratch: every activation overwrites both (refresh_info, line 140) before
\* it reads either, and the one other reader, the double-buffer branch of
\* display_swap, runs only under DISPLAY_DBUF, which line 164 clears in
\* every activation.  What they hold between calls is therefore not kept.
AtRest(f) == [f EXCEPT !.finfo = ZeroFix, !.vinfo = ZeroVar]

\* the handler ends in context c: its effects become the new state
Commit(c, op, arg) ==
    /\ video' = c.video
    /\ disp' = c.disp
    /\ fbdev' = AtRest(c.fbdev)
    /\ heap' = c.heap
    /\ dev' = c.dev
    /\ mm' = c.mm
    /\ modes_created' = c.modes_created
    /\ alive' = c.alive
    /\ last' = [op |-> op, arg |-> arg, ret |-> c.retval, ev |-> c.ev]
    /\ UNCHANGED life

\* the state video_init leaves: fbdev zeroed, display offline, dpms unknown
Init ==
    /\ video \in { [flags |-> {}], [flags |-> {VIDEO_AWAKE}] }
    /\ disp = [flags |-> {}, modes |-> <<>>, current_mode |-> NULL,
               dpms |-> UTERM_DPMS_UNKNOWN, vblank_spec |-> 0]
    /\ fbdev = [finfo |-> ZeroFix, vinfo |-> ZeroVar, map |-> NULL,
                xres |-> 0, yres |-> 0, len |-> 0, stride |-> 0, bufid |-> 0,
                Bpp |-> 0, off_r |-> 0, len_r |-> 0, off_g |-> 0, len_g |-> 0,
                off_b |-> 0, len_b |-> 0,
                dither_r |-> 0, dither_g |-> 0, dither_b |-> 0,
                xrgb32 |-> FALSE, rate |-> 0]
    /\ heap = << >>
    /\ dev \in { Device(m, f) : m \in VideoModes, f \in Formats }
    /\ mm = {}
    /\ modes_created = 0
    /\ alive = TRUE
    /\ last = NoCall
    /\ life = Ready

ActivateWith(mode) ==
    /\ alive
    /\ \E c \in display_activate(Ctx, mode) : Commit(c, "activate", mode)

Activate == \E mode \in ModeArgs : ActivateWith(mode)

Deactivate ==
    /\ alive
    /\ \E c \in display_deactivate(Ctx) : Commit(c, "deactivate", 0)

SetDpmsWith(state) ==
    /\ alive
    /\ \E c \in display_set_dpms(Ctx, state) : Commit(c, "set_dpms", state)

SetDpms == \E state \in DpmsArgs : SetDpmsWith(state)

Swap ==
    /\ alive
    /\ \E c \in display_swap(Ctx) : Commit(c, "swap", 0)

Sleep ==
    /\ alive
    /\ \E c \in video_sleep(Ctx) : Commit(c, "sleep", 0)

WakeUp ==
    /\ alive
    /\ \E c \in video_wake_up(Ctx) : Commit(c, "wake_up", 0)

\* the device is reconfigured from outside (fbset on the console)
Fbset ==
    /\ alive
    /\ \E m \in VideoModes, f \in Formats : dev' = Device(m, f)
    /\ dev' # dev
    /\ UNCHANGED <<video, disp, fbdev, heap, mm, modes_created, alive, last, life>>

Next ==
    \/ Activate
    \/ Deactivate
    \/ SetDpms
    \/ Swap
    \/ Sleep
    \/ WakeUp
    \/ Fbset

Spec == Init /\ [][Next]_vars

---------------------------------------------------------------------------
(* The rate computation over the timings a device may report: activation   *)
(* and deactivation of a display on a device whose timing registers hold   *)
(* zero, usual and extreme values.  Every product of non-zero sums is      *)
(* between 420000 and 10^16: it fits the uint64_t quot, and the quotient   *)
(* fits 32 bits, so the width of fbdev->rate does not change the result.   *)

RateXres == {0, 1920}
RateHMargin == {0, 800, 98080}
RateYres == {0, 1080}
RateVMargin == {0, 525, 98920}
RatePixclock == {0, 1, 6734, 1000000}

RateModes ==
    { [xres |-> x, yres |-> y, left_margin |-> 0, right_margin |-> hm,
       upper_margin |-> 0, lower_margin |-> vm, pixclock |-> p]
      : x \in RateXres, hm \in RateHMargin, y \in RateYres,
        vm \in RateVMargin, p \in RatePixclock }

\* the 32-bit true-color format
XRGB32 ==
    [visual |-> FB_VISUAL_TRUECOLOR, bits_per_pixel |-> 32,
     red |-> Chan(16, 8), green |-> Chan(8, 8), blue |-> Chan(0, 8)]

RateInit ==
    /\ video = [flags |-> {VIDEO_AWAKE}]
    /\ disp = [flags |-> {}, modes |-> <<>>, current_mode |-> NULL,
               dpms |-> UTERM_DPMS_UNKNOWN, vblank_spec |-> 0]
    /\ fbdev = [finfo |-> ZeroFix, vinfo |-> ZeroVar, map |-> NULL,
                xres |-> 0, yres |-> 0, len |-> 0, stride |-> 0, bufid |-> 0,
                Bpp |-> 0, off_r |-> 0, len_r |-> 0, off_g |-> 0, len_g |-> 0,
                off_b |-> 0, len_b |-> 0,
                dither_r |-> 0, dither_g |-> 0, dither_b |-> 0,
                xrgb32 |-> FALSE, rate |-> 0]
    /\ heap = << >>
    /\ dev \in { Device(m, XRGB32) : m \in RateModes }
    /\ mm = {}
    /\ modes_created = 0
    /\ alive = TRUE
    /\ last = NoCall
    /\ life = Ready

RateNext ==
    \/ Activate
    \/ Deactivate

RateSpec == RateInit /\ [][RateNext]_vars

---------------------------------------------------------------------------
(* The lifecycle of the display, from before video_init to after            *)
(* video_destroy, on one device; the display's operations run in between.  *)

LifeDevice == Device(CHOOSE m \in VideoModes : m.pixclock = 0, XRGB32)

LifeInit ==
    /\ video = [flags |-> {}]
    /\ disp = [flags |-> {}, modes |-> <<>>, current_mode |-> NULL,
               dpms |-> UTERM_DPMS_UNKNOWN, vblank_spec |-> 0]
    /\ fbdev = [finfo |-> ZeroFix, vinfo |-> ZeroVar, map |-> NULL,
                xres |-> 0, yres |-> 0, len |-> 0, stride |-> 0, bufid |-> 0,
                Bpp |-> 0, off_r |-> 0, len_r |-> 0, off_g |-> 0, len_g |-> 0,
                off_b |-> 0, len_b |-> 0,
                dither_r |-> 0, dither_g |-> 0, dither_b |-> 0,
                xrgb32 |-> FALSE, rate |-> 0]
    /\ heap = << >>
    /\ dev = LifeDevice
    /\ mm = {}
    /\ modes_created = 0
    /\ alive = TRUE
    /\ last = NoCall
    /\ life = Unborn

VideoInit ==
    /\ alive
    /\ life.phase = "none"
    /\ life' \in video_init(life)
    /\ UNCHANGED <<video, disp, fbdev, heap, dev, mm, modes_created, alive, last>>

\* the event loop runs its idle callbacks
IdleEvent ==
    /\ alive
    /\ life.idle_cbs > 0
    /\ \E o \in intro_idle_event(life) : life' = o.life /\ alive' = o.alive
    /\ UNCHANGED <<video, disp, fbdev, heap, dev, mm, modes_created, last>>

VideoDestroy ==
    /\ alive
    /\ life.phase = "ready"
    /\ life' = video_destroy(life)
    /\ UNCHANGED <<video, disp, fbdev, heap, dev, mm, modes_created, alive, last>>

\* the display's operations are called between video_init and video_destroy
LifeActivate == life.phase = "ready" /\ Activate
LifeDeactivate == life.phase = "ready" /\ Deactivate
LifeSleep == life.phase = "ready" /\ Sleep
LifeWakeUp == life.phase = "ready" /\ WakeUp

LifeNext ==
    \/ VideoInit
    \/ IdleEvent
    \/ VideoDestroy
    \/ LifeActivate
    \/ LifeDeactivate
    \/ LifeSleep
    \/ LifeWakeUp

LifeSpec == LifeInit /\ [][LifeNext]_vars


Awake == video_is_awake(video)
Online == DISPLAY_ONLINE \in disp.flags
Mapped == fbdev.map \in mm

\* the device is configured with a format the backend supports
Supported(d) ==
    /\ d.fix.visual = FB_VISUAL_TRUECOLOR
    /\ d.var.bits_per_pixel \in {16, 32}
    /\ d.var.red.length <= 8
    /\ d.var.green.length <= 8
    /\ d.var.blue.length <= 8

\* C1 as stated: between calls the display holds a mapping if and only if
\* its DISPLAY_ONLINE flag is set.
C1_MappedIffOnlineFlag == alive => (Mapped <=> Online)

\* C1 amended: between calls the display holds a mapping if and only if its
\* DISPLAY_ONLINE flag is set and the video object is awake.
C1_MappedIffOnlineAwake == alive => (Mapped <=> (Online /\ Awake))

\* C1 witness: video_sleep has just released the mapping of an online display
\* and left the flag set.
C1_Witness ==
    /\ alive /\ last.op = "sleep" /\ last.ev.munmaps = 1
    /\ Online /\ ~Awake /\ ~Mapped

\* C2 as stated: when an activation (a caller's, or the forced one of
\* video_wake_up) fails after it has called the device, the display is
\* afterwards offline (DISPLAY_ONLINE clear) and holds no mapping.
C2_FailedActivationOffline ==
    (alive /\ last.op \in {"activate", "wake_up"} /\ last.ret # 0 /\ last.ev.ioctls)
        => (~Online /\ ~Mapped)

\* C2 amended: when an activation fails after it has called the device, no
\* mapping is held afterwards; a caller's activate leaves DISPLAY_ONLINE
\* clear, and the forced re-activation of video_wake_up leaves the flag set
\* as it found it, with the video object asleep again.
C2_FailedActivationUnmapped ==
    (alive /\ last.op \in {"activate", "wake_up"} /\ last.ret # 0 /\ last.ev.ioctls)
        => /\ ~Mapped
           /\ mm = {}
           /\ last.op = "activate" => ~Online
           /\ last.op = "wake_up" => (Online /\ ~Awake)

\* C2 witness: a re-activation on wake-up mapped nothing because the device
\* refused a call, and video_wake_up returned the error.
C2_Witness ==
    /\ alive /\ last.op = "wake_up" /\ last.ret = -EFAULT
    /\ last.ev.ioctls /\ last.ev.failed /\ Online /\ ~Awake /\ ~Mapped

\* video_sleep acts on an online display
C3_SleepStep == Awake /\ Online /\ last'.op = "sleep" /\ Sleep

\* video_wake_up runs right after a video_sleep that released the mapping
C3_WakeStep ==
    /\ last.op = "sleep" /\ last.ev.munmaps = 1 /\ ~Awake /\ Online
    /\ last'.op = "wake_up" /\ WakeUp

C3_SleepKeeps ==
    /\ alive' /\ ~Awake' /\ Online' /\ ~Mapped' /\ last'.ev.munmaps = 1
    /\ disp'.current_mode = disp.current_mode
    /\ heap' = heap

C3_Restored ==
    /\ alive' /\ last'.ret = 0 /\ Awake' /\ Online'
    /\ disp'.current_mode = disp.current_mode
    /\ disp'.modes = disp.modes
    /\ heap' = heap
    /\ ~Mapped /\ Mapped' /\ last'.ev.mmaps = 1

\* C3 as stated: sleep, then wake-up with no device call refused, on a
\* display that was online: sleep releases the mapping and keeps the mode,
\* and wake-up leaves the display online and awake with the same mode object,
\* the same width and height, and a new mapping.
C3_SleepWakeRestores ==
    [][ /\ C3_SleepStep => C3_SleepKeeps
        /\ (C3_WakeStep /\ ~last'.ev.failed) => C3_Restored ]_vars

\* C3 amended: the same, provided the device is left in a format the backend
\* supports (true-color, 16 or 32 bits per pixel, channels of at most 8 bits).
C3_SleepWakeRestoresSupported ==
    [][ /\ C3_SleepStep => C3_SleepKeeps
        /\ (C3_WakeStep /\ ~last'.ev.failed /\ Supported(dev')) => C3_Restored ]_vars

\* C3 witness: a wake-up re-activated a sleeping online display, no device
\* call refused, and mapped its buffer anew.
C3_Witness ==
    /\ alive /\ last.op = "wake_up" /\ last.ret = 0 /\ ~last.ev.failed
    /\ last.ev.mmaps = 1 /\ last.ev.mode_news = 0
    /\ Awake /\ Online /\ Mapped /\ disp.current_mode # NULL

\* C4: deactivate (force = false) on a display whose DISPLAY_ONLINE flag is
\* set leaves no current mode, no mapping and the flag clear; the forced
\* deactivation (video_sleep) releases the mapping and leaves the current
\* mode and the flag as they were.
C4_Deactivate ==
    [][ /\ (Online /\ last'.op = "deactivate" /\ Deactivate /\ alive')
            => /\ disp'.current_mode = NULL
               /\ disp'.modes = <<>>
               /\ DOMAIN heap' = {}
               /\ ~Mapped' /\ mm' = {}
               /\ ~Online'
        /\ (Online /\ Awake /\ last'.op = "sleep" /\ Sleep /\ alive')
            => /\ ~Mapped' /\ mm' = {} /\ last'.ev.munmaps = 1
               /\ disp'.current_mode = disp.current_mode
               /\ disp'.modes = disp.modes
               /\ heap' = heap
               /\ Online' ]_vars

\* C4 witness: a caller's deactivate released the mapping of an online
\* display.
C4_Witness ==
    /\ alive /\ last.op = "deactivate" /\ last.ev.munmaps = 1
    /\ ~Online /\ ~Mapped /\ disp.current_mode = NULL

\* C5: activate with a NULL mode and without force on a display that is
\* online, the video object awake, returns 0, calls nothing and changes
\* nothing: not the device, the mapping, the buffer region fields, the flags,
\* the mode or the timer period.
C5_ActivateIdempotent ==
    [][ (Online /\ Awake /\ last'.op = "activate" /\ last'.arg = NULL
         /\ ActivateWith(NULL))
            => /\ last'.ret = 0
               /\ last'.ev = NoEvents
               /\ UNCHANGED <<video, disp, fbdev, heap, dev, mm,
                              modes_created, alive>> ]_vars

\* C5 witness: an activate on an online display returned 0 without a call.
C5_Witness ==
    /\ alive /\ last.op = "activate" /\ last.arg = NULL /\ last.ret = 0
    /\ last.ev = NoEvents /\ Online /\ Awake /\ Mapped

\* C6: after every activation that succeeded (a caller's, or the forced one
\* of wake-up) the display has exactly one mode, whose width and height are
\* the recorded resolution fbdev->xres, fbdev->yres.
C6_ModeIsResolution ==
    (alive /\ last.op \in {"activate", "wake_up"} /\ last.ret = 0
     /\ last.ev.mmaps = 1)
        => /\ Len(disp.modes) = 1
           /\ disp.current_mode = Head(disp.modes)
           /\ mode_get_width(disp, heap) = fbdev.xres
           /\ mode_get_height(disp, heap) = fbdev.yres

\* C7 as stated: over the display's lifetime a mode is created at most once.
C7_ModeCreatedOnce == modes_created <= 1

\* C7 amended: at most one mode exists at any time; a mode is created only
\* by a caller's activate that finds no current mode (the first one, and each
\* one after a deactivate dropped the mode), and the forced re-activation of
\* wake-up creates none and keeps the mode it finds.
C7_ModeCreatedWhenNone ==
    [][ /\ Cardinality(DOMAIN heap') <= 1
        /\ Len(disp'.modes) <= 1
        /\ modes_created' # modes_created
            => /\ modes_created' = modes_created + 1
               /\ last'.op = "activate"
               /\ disp.current_mode = NULL
               /\ DOMAIN heap = {}
               /\ alive' => (last'.ret = 0 /\ disp'.current_mode = modes_created')
        /\ (~Awake /\ Online /\ last'.op = "wake_up")
            => /\ modes_created' = modes_created
               /\ disp'.current_mode = disp.current_mode
               /\ heap' = heap ]_vars

\* C7 witness: the display's second mode, created by an activate after a
\* deactivate.
C7_Witness ==
    /\ alive /\ modes_created = 2 /\ last.op = "activate" /\ last.ret = 0
    /\ last.ev.mode_news = 1 /\ disp.current_mode = 2 /\ DOMAIN heap = {2}

\* C8: set_dpms records a new state only when the video object is awake, the
\* display online, the state one of the four and the device accepts; asleep
\* or offline it returns -EINVAL without a device call, a device rejection
\* gives -EFAULT, and no failing call changes the recorded state.
C8_SetDpms ==
    [][ \A state \in DpmsArgs :
          (last'.op = "set_dpms" /\ last'.arg = state /\ SetDpmsWith(state))
            => /\ (~Awake \/ ~Online)
                    => (last'.ret = -EINVAL /\ ~last'.ev.ioctls)
               /\ last'.ev.failed => last'.ret = -EFAULT
               /\ last'.ret # 0 => disp'.dpms = disp.dpms
               /\ disp'.dpms # disp.dpms
                    => /\ Awake /\ Online /\ last'.ret = 0
                       /\ state \in {UTERM_DPMS_ON, UTERM_DPMS_STANDBY,
                                     UTERM_DPMS_SUSPEND, UTERM_DPMS_OFF}
                       /\ disp'.dpms = state ]_vars

\* an activation creates the mapping and returns 0
MapsAndSucceeds == mm = {} /\ mm' # {} /\ alive' /\ last'.ret = 0

\* C9: an activation that leaves the device at a depth other than 16 or 32
\* (the device reported it and took neither candidate depth) fails with the
\* display offline and unmapped, and an activation that succeeds records the
\* bytes per pixel of the depth the device is configured with.
C9_DepthFallback ==
    [][ /\ (~Online /\ last'.op = "activate" /\ ActivateWith(NULL)
            /\ last'.ev.ioctls /\ dev'.var.bits_per_pixel \notin {16, 32})
            => (last'.ret = -EFAULT /\ ~Online' /\ ~Mapped')
        /\ MapsAndSucceeds => fbdev'.Bpp * 8 = dev'.var.bits_per_pixel ]_vars

\* C10: the format a successful activation records has 2 or 4 bytes per
\* pixel and channels of at most 8 bits, and the device it was read from is
\* true-color at 16 or 32 bits per pixel with such channels: for every other
\* device configuration the activation fails.
C10_RecordedFormat ==
    [][ MapsAndSucceeds
            => /\ fbdev'.Bpp \in {2, 4}
               /\ fbdev'.len_r <= 8 /\ fbdev'.len_g <= 8 /\ fbdev'.len_b <= 8
               /\ Supported(dev') ]_vars

\* the timing sums of the device and their product being zero
HSum == dev.var.left_margin + dev.var.right_margin + dev.var.xres
VSum == dev.var.upper_margin + dev.var.lower_margin + dev.var.yres
ZeroProduct == HSum = 0 \/ VSum = 0 \/ dev.var.pixclock = 0

\* C11: the rate an activation stores is between 1 and 200000 milli-Hz, it
\* is 60000 whenever the product of the two timing sums and the pixel clock
\* is zero, and the interval handed to the timer is 1000000 / rate, between
\* 5 and 1000000.
C11_RateBounded ==
    (alive /\ last.op = "activate" /\ last.ev.timer_set)
        => /\ fbdev.rate \in 1..200000
           /\ ZeroProduct => fbdev.rate = 60000
           /\ disp.vblank_spec = 1000000 \div fbdev.rate
           /\ disp.vblank_spec \in 5..1000000

\* C11 witness: an activation clamped the rate of a fast device to 200000.
C11_Witness ==
    /\ alive /\ last.op = "activate" /\ last.ev.timer_set
    /\ ~ZeroProduct /\ dev.var.pixclock = 1
    /\ fbdev.rate = 200000 /\ disp.vblank_spec = 5

\* C12: display_swap on an online display, the video object awake and
\* DISPLAY_DBUF clear, leaves the back-buffer index and the device alone,
\* issues no device call and arms the vblank timer, on every call; with the
\* video object asleep or the display offline it returns -EINVAL, arms
\* nothing and changes nothing.
C12_SwapSingleBuffered ==
    [][ (last'.op = "swap" /\ Swap)
            => /\ (Awake /\ Online /\ DISPLAY_DBUF \notin disp.flags)
                    => /\ last'.ret = 0
                       /\ last'.ev.timer_sched
                       /\ ~last'.ev.ioctls
                       /\ fbdev'.bufid = fbdev.bufid
                       /\ dev' = dev
               /\ (~Awake \/ ~Online)
                    => /\ last'.ret = -EINVAL
                       /\ ~last'.ev.timer_sched
                       /\ ~last'.ev.ioctls
                       /\ UNCHANGED <<video, disp, fbdev, heap, dev, mm,
                                      modes_created, alive>> ]_vars

\* C12 witness: a swap on an online, single-buffered display armed the timer
\* without a device call.
C12_Witness ==
    /\ alive /\ last.op = "swap" /\ last.ret = 0 /\ last.ev.timer_sched
    /\ ~last.ev.ioctls /\ Awake /\ Online /\ DISPLAY_DBUF \notin disp.flags
    /\ fbdev.bufid = 0

\* C13: an activate whose first apply the device refused and whose retry
\* (virtual height = height) it accepted, with no other call refused, no
\* allocation failure and the device left in a supported format, returns 0
\* with DISPLAY_ONLINE set, the buffer mapped and DISPLAY_DBUF clear; and
\* DISPLAY_DBUF is clear after every call.
C13_RetrySingleBuffered ==
    [][ /\ DISPLAY_DBUF \notin disp'.flags
        /\ (/\ ~Online /\ Awake
            /\ last'.op = "activate" /\ last'.arg = NULL
            /\ last'.ev.retried
            /\ last'.ret # -ENOMEM /\ alive'
            /\ Supported(dev')
            /\ ActivateWith(NULL))
            => /\ last'.ret = 0
               /\ Online' /\ Mapped' /\ last'.ev.mmaps = 1
               /\ dev'.var.yres_virtual = dev'.var.yres ]_vars

\* C13 witness: an activate succeeded through the retry.
C13_Witness ==
    /\ alive /\ last.op = "activate" /\ last.ret = 0
    /\ last.ev.retried /\ last.ev.failed /\ last.ev.mmaps = 1
    /\ Online /\ Mapped /\ DISPLAY_DBUF \notin disp.flags

\* C14: for a display whose video_init succeeded, UTERM_NEW is delivered at
\* most once and not before video_init has returned; video_destroy delivers
\* UTERM_GONE if and only if UTERM_NEW was delivered before; a video_destroy
\* that finds the callback pending unregisters it, and UTERM_NEW is not
\* delivered after video_destroy.
C14_Lifecycle ==
    [][ /\ life'.phase = "none" => (life'.news = 0 /\ life'.gones = 0)
        /\ life'.phase \in {"ready", "destroyed"} => life'.news <= 1
        /\ life'.phase = "ready"
            => /\ life'.gones = 0
               /\ life'.pending_intro <=> life'.news = 0
               /\ life'.idle_cbs = IF life'.pending_intro THEN 1 ELSE 0
        /\ (life.phase = "ready" /\ life'.phase = "destroyed")
            => /\ life'.gones = life.news
               /\ life'.news = life.news
               /\ life'.idle_cbs = 0
        /\ life.phase = "destroyed"
            => /\ life'.news = life.news
               /\ life'.gones = life.gones
               /\ life'.idle_cbs = 0 ]_vars

\* C14 witness: video_destroy ran while the callback was pending, cancelled
\* it and announced nothing.
C14_Witness ==
    /\ life.phase = "destroyed" /\ life.news = 0 /\ life.gones = 0
    /\ life.idle_cbs = 0 /\ life.pending_intro

\* C15: no deactivation (a caller's, or the forced one of video_sleep)
\* zero-fills or unmaps a region that is not mapped.
C15_ReleaseOnlyMapped ==
    last.op \in {"deactivate", "sleep"} => ~last.ev.stale

\* C16: after video_init has failed, intro_idle_event is not registered, the
\* display and its fbdev data are freed, and UTERM_NEW is never delivered.
C16_FailedInitRolledBack ==
    life.phase = "failed"
        => /\ life.idle_cbs = 0
           /\ ~life.disp_live /\ ~life.fbdev_live
           /\ life.news = 0

\* C17: activate with a mode that is not NULL, the video object awake,
\* returns -EINVAL whether the display is offline or online, and so does
\* every activate with the video object asleep; neither changes any state.
C17_ActivateRefused ==
    [][ \A mode \in ModeArgs :
          (/\ mode # NULL \/ ~Awake
           /\ last'.op = "activate" /\ last'.arg = mode
           /\ ActivateWith(mode))
            => /\ last'.ret = -EINVAL
               /\ last'.ev = NoEvents
               /\ UNCHANGED <<video, disp, fbdev, heap, dev, mm,
                              modes_created, alive>> ]_vars

\* C18: video_wake_up with the video object awake returns 0 and does
\* nothing; asleep with DISPLAY_ONLINE set it re-activates the display, and
\* when that fails it returns the error with VIDEO_AWAKE clear again, the
\* flag DISPLAY_ONLINE still set and no mapping, so that the next
\* video_wake_up re-activates again; asleep with the display offline it only
\* sets VIDEO_AWAKE.  video_sleep with the video object asleep does nothing.
C18_WakeUpSleep ==
    [][ /\ (Awake /\ last'.op = "wake_up" /\ WakeUp)
            => /\ last'.ret = 0 /\ last'.ev = NoEvents
               /\ UNCHANGED <<video, disp, fbdev, heap, dev, mm,
                              modes_created, alive>>
        /\ (~Awake /\ Online /\ last'.op = "wake_up")
            => /\ alive' /\ last'.ev.ioctls
               /\ last'.ret = 0 => (Awake' /\ Online' /\ Mapped')
               /\ last'.ret # 0
                    => (~Awake' /\ Online' /\ ~Mapped' /\ mm' = {})
        /\ (~Awake /\ ~Online /\ last'.op = "wake_up")
            => /\ last'.ret = 0 /\ last'.ev = NoEvents
               /\ Awake' /\ ~Online' /\ ~Mapped'
        /\ (~Awake /\ last'.op = "sleep" /\ Sleep)
            => /\ last'.ev = NoEvents
               /\ UNCHANGED <<video, disp, fbdev, heap, dev, mm,
                              modes_created, alive>> ]_vars

\* C18 witness: a re-activation on wake-up failed on the format checks with
\* every device call accepted, and left the video object asleep and the
\* display flagged online.
C18_Witness ==
    /\ alive /\ last.op = "wake_up" /\ last.ret # 0
    /\ last.ev.ioctls /\ ~last.ev.failed
    /\ ~Awake /\ Online /\ ~Mapped /\ mm = {}

\* C19: while the video object is asleep no mapping is held, and an activate
\* called while it is asleep returns -EINVAL, maps nothing and leaves the
\* display's flags as they are.
C19_AsleepUnmapped ==
    [][ /\ ~Awake' => (~Mapped' /\ mm' = {})
        /\ (~Awake /\ last'.op = "activate")
            => /\ last'.ret = -EINVAL
               /\ last'.ev.mmaps = 0
               /\ mm' = mm /\ disp' = disp /\ ~Awake' ]_vars

\* C19 witness: an activate was refused while the video object was asleep,
\* the display flagged online and its buffer unmapped by video_sleep.
C19_Witness ==
    /\ alive /\ ~Awake /\ last.op = "activate" /\ last.arg = NULL
    /\ last.ret = -EINVAL /\ last.ev = NoEvents /\ Online /\ mm = {}

\* C20: at most one mapping exists at any time and it is the one fbdev->map
\* points to; no activate and no wake-up maps the buffer while a mapping is
\* held; a deactivate or sleep that returns leaves none.
C20_OneMapping ==
    [][ /\ Cardinality(mm') <= 1
        /\ mm' # {} => fbdev'.map \in mm'
        /\ (mm # {} /\ last'.op \in {"activate", "wake_up"}
            /\ (Activate \/ WakeUp))
            => (last'.ev.mmaps = 0 /\ mm' = mm)
        /\ (mm' # mm /\ mm' # {}) => (mm = {} /\ last'.ev.mmaps = 1)
        /\ (alive' /\ last'.op \in {"deactivate", "sleep"}) => mm' = {} ]_vars

\* C20 witness: wake-up mapped the buffer anew after sleep had released it.
C20_Witness ==
    /\ alive /\ last.op = "wake_up" /\ last.ev.mmaps = 1
    /\ last.ev.munmaps = 0 /\ Cardinality(mm) = 1 /\ fbdev.map \in mm

====
